---- MODULE Spec2Model ----
(***************************************************************************)
(* Model of mcp-obsidian-enhanced: the tool handlers (tools/base.py,       *)
(* tools/files.py), the REST client (obsidian.py), the error classes       *)
(* (utils/errors.py), the configuration (config.py) and the decorator      *)
(* tools with their shared client handle (server.py).                      *)
(*                                                                         *)
(* Text is modelled as a sequence of tokens: "Notes/a.md" is a sequence    *)
(* such as <<"a", "/", "a">>.  The tokens "/", "vault" and " " are the     *)
(* ones the code looks at (startswith("/"), split("/vault/"), URL          *)
(* quoting); every other token stands for text the code never inspects.    *)
(* An optional value (Python None or a value) is a sequence of length at   *)
(* most one: <<>> is None, <<v>> is v.                                     *)
(***************************************************************************)
EXTENDS Integers, Sequences, FiniteSets, TLC

VARIABLES
    fn,         \* pure function applied last ("none" before the first one)
    fnIn,       \* its argument (optional text)
    fnOut,      \* its outcome: [ok |-> TRUE, val |-> ..] or [ok |-> FALSE, exc |-> ..]
    pc,         \* tool invocation: "idle", "validated" or "done"
    tool,       \* name of the tool handler invoked
    args,       \* the argument dictionary the caller supplied
    vargs,      \* the dictionary validate_args returned (<<>> when none)
    op,         \* client operation called last ("none" before the first one)
    opArgs,     \* its arguments
    requests,   \* HTTP requests issued by the current invocation / operation
    resp,       \* what the transport answered to the last request
    raised,     \* optional exception that left the invocation / operation
    caught,     \* optional exception run_tool handed to handle_error
    result,     \* optional value the invocation / operation returned
    vault,      \* upstream vault: note path -> optional body
    vaultBefore, \* the vault as it was before the last client operation
    opBefore,   \* the client operation before the last one: [op, args, ok]
    environ,    \* OBSIDIAN_API_KEY in the environment (optional text)
    client,     \* server.py: the global client handle (<<>> is None)
    built,      \* number of ObsidianClient objects constructed so far
    _config,    \* config.py: the global _config (<<>> is None)
    resets,     \* number of reset_config() calls so far
    tasks       \* concurrent invocations: id -> [pc, tool, args, used, requests, caught, raised]

vars == <<fn, fnIn, fnOut, pc, tool, args, vargs, op, opArgs, requests, resp,
          raised, caught, result, vault, vaultBefore, opBefore,
          environ, client, built, _config, resets, tasks>>

pathVars == <<fn, fnIn, fnOut>>
toolVars == <<tool, args, vargs, caught>>
clientVars == <<op, opArgs>>
ioVars == <<requests, resp, raised, result>>
vaultVars == <<vault, vaultBefore, opBefore>>
serverVars == <<environ, client, built, _config, resets, tasks>>

----------------------------------------------------------------------------
(* Bounds of the model *)

MaxPathLen == 3

MaxBodyLen == 3

(* Tokens of caller-supplied paths *)
PathTokens == {"/", "vault", "a", " "}

RECURSIVE SeqsUpTo(_, _)
SeqsUpTo(S, n) ==
    IF n = 0 THEN {<<>>}
    ELSE LET shorter == SeqsUpTo(S, n - 1)
         IN  shorter \cup {Append(s, x) : s \in shorter, x \in S}

Paths == SeqsUpTo(PathTokens, MaxPathLen)

(* None, or a path (the empty one included) *)
OptPaths == {<<>>} \cup {<<p>> : p \in Paths}

----------------------------------------------------------------------------
(* Text helpers *)

StartsWith(s, t) == Len(s) >= Len(t) /\ SubSeq(s, 1, Len(t)) = t

EndsWith(s, t) == Len(s) >= Len(t) /\ SubSeq(s, Len(s) - Len(t) + 1, Len(s)) = t

(* str.find: least index at which t occurs in s, 0 when it does not *)
Find(s, t) ==
    LET idx == {i \in 1..(Len(s) - Len(t) + 1) : SubSeq(s, i, i + Len(t) - 1) = t}
    IN  IF idx = {} THEN 0 ELSE CHOOSE i \in idx : \A j \in idx : i <= j

Contains(s, t) == Find(s, t) # 0

(* s.split(t)[-1]: split scans left to right for non-overlapping matches *)
RECURSIVE SplitLast(_, _)
SplitLast(s, t) ==
    LET i == Find(s, t)
    IN  IF i = 0 THEN s ELSE SplitLast(SubSeq(s, i + Len(t), Len(s)), t)

(* Python truthiness of an optional text: None and "" are falsy *)
Falsy(opt) == opt = <<>> \/ opt[1] = <<>>

Returns(v) == [ok |-> TRUE, val |-> v]

Raises(e) == [ok |-> FALSE, exc |-> e]

----------------------------------------------------------------------------
(* utils/errors.py *)

ObsidianError(message, status_code) ==
    [type |-> "ObsidianError", message |-> message, status_code |-> status_code]

AuthenticationError(message) ==
    [type |-> "AuthenticationError", message |-> message, status_code |-> <<401>>]

ConnectionError(message) ==
    [type |-> "ConnectionError", message |-> message, status_code |-> <<>>]

FileNotFoundError(path) ==
    [type |-> "FileNotFoundError", message |-> <<"File not found: ">> \o path,
     status_code |-> <<404>>]

ValidationError(message) ==
    [type |-> "ValidationError", message |-> message, status_code |-> <<400>>]

(* ObsidianError.__str__ *)
ErrorStr(e) ==
    IF e.status_code # <<>> /\ e.status_code[1] # 0
    THEN <<"[", ToString(e.status_code[1]), "] ">> \o e.message
    ELSE e.message

----------------------------------------------------------------------------
(* tools/base.py: path canonicalisation *)

(* validate_filepath testing "is None" instead of "not filepath" *)
validate_filepath_none_only(filepath) ==
    IF filepath = <<>> THEN Raises(ValidationError(<<"File path is required">>))
    ELSE IF StartsWith(filepath[1], <<"/">>) THEN Returns(Tail(filepath[1]))
    ELSE Returns(filepath[1])

validate_filepath(filepath) ==
    IF Falsy(filepath) THEN Raises(ValidationError(<<"File path is required">>))
    ELSE IF StartsWith(filepath[1], <<"/">>) THEN Returns(Tail(filepath[1]))
    ELSE Returns(filepath[1])

(* validate_dirpath without the removal of the leading slash *)
validate_dirpath_no_strip(dirpath) ==
    IF Falsy(dirpath) THEN Raises(ValidationError(<<"Directory path is required">>))
    ELSE IF ~EndsWith(dirpath[1], <<"/">>) THEN Returns(dirpath[1] \o <<"/">>)
    ELSE Returns(dirpath[1])

validate_dirpath(dirpath) ==
    IF Falsy(dirpath) THEN Raises(ValidationError(<<"Directory path is required">>))
    ELSE LET stripped == IF StartsWith(dirpath[1], <<"/">>) THEN Tail(dirpath[1])
                         ELSE dirpath[1]
         IN  IF ~EndsWith(stripped, <<"/">>) THEN Returns(stripped \o <<"/">>)
             ELSE Returns(stripped)

----------------------------------------------------------------------------
(* config.py: the connection profile (defaults of ObsidianConfig; the key  *)
(* comes from the environment)                                             *)

Config ==
    [api_key |-> "KEY", host |-> "127.0.0.1", port |-> 27124,
     protocol |-> "https", verify_ssl |-> FALSE, timeout |-> 10]

get_base_url == <<Config.protocol, "://", Config.host, ":", ToString(Config.port)>>

----------------------------------------------------------------------------
(* obsidian.py: requests built by the client operations *)

(* _get_headers returning the content type only *)
_get_headers_no_auth == "Content-Type" :> <<"text/markdown">>

_get_headers ==
    ("Authorization" :> <<"Bearer ", Config.api_key>>)
        @@ ("Content-Type" :> <<"text/markdown">>)

(* dict.update / item assignment: the keys of extra replace those of headers *)
Update(headers, extra) == extra @@ headers

(* urllib.parse.quote: "/" is safe, a space becomes %20 *)
Quote(s) == [i \in 1..Len(s) |-> IF s[i] = " " THEN "%20" ELSE s[i]]

(* The encoding requests applies to the values of params: a space becomes + *)
QuotePlus(s) == [i \in 1..Len(s) |-> IF s[i] = " " THEN "+" ELSE s[i]]

(* str(flag).lower() *)
BoolStr(b) == IF b THEN "true" ELSE "false"

Request(method, url, headers, data) ==
    [method |-> method, url |-> url, headers |-> headers, data |-> data,
     verify |-> Config.verify_ssl, timeout |-> Config.timeout]

VaultUrl(filepath) == get_base_url \o <<"/", "vault", "/">> \o filepath

ActiveUrl == get_base_url \o <<"/", "active", "/">>

AcceptNoteJson(format) ==
    IF format = "json" THEN Update(_get_headers, "Accept" :> <<"application/vnd.olrapi.note+json">>)
    ELSE _get_headers

(* patch_content sending the target as it is, without urllib.parse.quote *)
PatchHeaders_target_unquoted(a) ==
    Update(_get_headers,
           ("Operation" :> <<a.operation>>)
           @@ ("Target-Type" :> <<a.target_type>>)
           @@ ("Target" :> a.target)
           @@ ("Create-Target-If-Missing" :> <<BoolStr(a.create_target_if_missing)>>))

PatchHeaders(a) ==
    Update(_get_headers,
           ("Operation" :> <<a.operation>>)
           @@ ("Target-Type" :> <<a.target_type>>)
           @@ ("Target" :> Quote(a.target))
           @@ ("Create-Target-If-Missing" :> <<BoolStr(a.create_target_if_missing)>>))

(* Method with create_or_update_file calling requests.post like            *)
(* append_content does                                                     *)
Method_create_posts(o) ==
    CASE o \in {"get_file_contents", "get_active_file", "list_files_in_vault",
                "list_files_in_dir"} -> "GET"
      [] o \in {"update_active_file"} -> "PUT"
      [] o \in {"create_or_update_file", "append_content", "append_active_file",
                "show_file", "search", "search_json", "search_dql"} -> "POST"
      [] o \in {"patch_content", "patch_active_file"} -> "PATCH"
      [] o \in {"delete_file", "delete_active_file"} -> "DELETE"

(* The requests function (requests.get, .put, .post, .patch or .delete)    *)
(* that call_fn of operation o calls                                       *)
Method(o) ==
    CASE o \in {"get_file_contents", "get_active_file", "list_files_in_vault",
                "list_files_in_dir"} -> "GET"
      [] o \in {"create_or_update_file", "update_active_file"} -> "PUT"
      [] o \in {"append_content", "append_active_file", "show_file", "search",
                "search_json", "search_dql"} -> "POST"
      [] o \in {"patch_content", "patch_active_file"} -> "PATCH"
      [] o \in {"delete_file", "delete_active_file"} -> "DELETE"

(* The request a client operation o issues for its arguments a *)
BuildRequest(o, a) ==
    CASE o = "get_file_contents" ->
            Request(Method(o), VaultUrl(a.filepath), AcceptNoteJson(a.format), <<>>)
      [] o \in {"create_or_update_file", "append_content"} ->
            Request(Method(o), VaultUrl(a.filepath), _get_headers, <<a.content>>)
      [] o = "patch_content" ->
            Request(Method(o), VaultUrl(a.filepath), PatchHeaders(a), <<a.content>>)
      [] o = "delete_file" ->
            Request(Method(o), VaultUrl(a.filepath), _get_headers, <<>>)
      [] o = "get_active_file" ->
            Request(Method(o), ActiveUrl, AcceptNoteJson(a.format), <<>>)
      [] o \in {"update_active_file", "append_active_file"} ->
            Request(Method(o), ActiveUrl, _get_headers, <<a.content>>)
      [] o = "patch_active_file" ->
            Request(Method(o), ActiveUrl, PatchHeaders(a), <<a.content>>)
      [] o = "delete_active_file" ->
            Request(Method(o), ActiveUrl, _get_headers, <<>>)
      [] o = "show_file" ->
            Request(Method(o),
                    get_base_url \o <<"/", "open", "/">> \o Quote(a.filepath)
                        \o (IF a.new_leaf THEN <<"?newLeaf=true">> ELSE <<>>),
                    _get_headers, <<>>)
      [] o = "list_files_in_vault" ->
            Request(Method(o), get_base_url \o <<"/", "vault", "/">>, _get_headers, <<>>)
      [] o = "list_files_in_dir" ->
            Request(Method(o), VaultUrl(a.dirpath) \o <<"/">>, _get_headers, <<>>)
      [] o = "search" ->
            Request(Method(o),
                    get_base_url \o <<"/", "search", "/", "simple", "/">>
                        \o <<"?query=">> \o QuotePlus(a.query)
                        \o <<"&contextLength=", ToString(a.context_length)>>,
                    _get_headers, <<>>)
      [] o = "search_json" ->
            Request(Method(o), get_base_url \o <<"/", "search", "/">>,
                    Update(_get_headers,
                           "Content-Type" :> <<"application/vnd.olrapi.jsonlogic+json">>),
                    <<a.query>>)
      [] o = "search_dql" ->
            Request(Method(o), get_base_url \o <<"/", "search", "/">>,
                    Update(_get_headers,
                           "Content-Type" :> <<"application/vnd.olrapi.dataview.dql+txt">>),
                    <<a.query>>)

----------------------------------------------------------------------------
(* What the transport (the requests library and the upstream API behind    *)
(* it) answers to a request: a library exception, or an HTTP response.     *)

(* requests.exceptions raised by requests.get/put/post/patch/delete.       *)
(* ConnectTimeout derives from ConnectionError and Timeout; ReadTimeout    *)
(* derives from Timeout only.                                              *)
TransportFailures ==
    {"requests.ConnectionError", "requests.ConnectTimeout", "requests.ReadTimeout"}

RequestsConnectionErrors == {"requests.ConnectionError", "requests.ConnectTimeout"}

LibError(type, message) == [type |-> type, message |-> message, status_code |-> <<>>]

(* Response bodies: the text and, when the text is JSON, the parsed value *)
JsonObject(fields, src) == [t |-> "object", fields |-> fields, src |-> src]

JsonOther(t, src) == [t |-> t, fields |-> <<>>, src |-> src]

Body(text, json) == [text |-> text, json |-> json]

JsonBody(v) == Body(<<v.src>>, <<v>>)

ResponseBodies ==
    { Body(<<"A">>, <<>>),
      JsonBody(JsonObject([message |-> <<"x">>, errorCode |-> 7],
                          "{\"message\":\"x\",\"errorCode\":7}")),
      JsonBody(JsonObject([message |-> <<"x">>], "{\"message\":\"x\"}")),
      JsonBody(JsonObject([files |-> <<"a">>], "{\"files\":[\"a\"]}")),
      JsonBody(JsonOther("list", "[]")),
      JsonBody([t |-> "string", fields |-> <<"A">>, src |-> "\"A\""]),
      JsonBody(JsonOther("number", "1")),
      JsonBody(JsonOther("null", "null")) }

Statuses == {200, 204, 400, 401, 404, 500}

(* requests prepares the URL of a request: a space is sent as %20 *)
RequoteUri(url) == [i \in 1..Len(url) |-> IF url[i] = " " THEN "%20" ELSE url[i]]

Response(status, body, url) ==
    [kind |-> "response", status |-> status, body |-> body, url |-> url]

Failure(type) == [kind |-> "failure", type |-> type]

TransportAnswers(req) ==
    {Failure(t) : t \in TransportFailures}
        \cup {Response(st, b, RequoteUri(req.url)) : st \in Statuses, b \in ResponseBodies}

(* str(e) of the HTTPError that raise_for_status raises *)
HTTPErrorStr(r) ==
    <<ToString(r.status),
      IF r.status < 500 THEN " Client Error: " ELSE " Server Error: ",
      "for url: ">> \o r.url

(* response.raise_for_status(): raises for 4xx and 5xx only *)
RaisesForStatus(r) == r.status >= 400 /\ r.status < 600

(* response.json() *)
ResponseJson(r) ==
    IF r.body.json = <<>> THEN Raises(LibError("ValueError", <<"Expecting value">>))
    ELSE Returns(r.body.json[1])

(* response.json()["files"] *)
JsonFiles(r) ==
    LET j == ResponseJson(r)
    IN  IF ~j.ok THEN j
        ELSE IF j.val.t # "object" THEN Raises(LibError("TypeError", <<"not subscriptable">>))
        ELSE IF "files" \notin DOMAIN j.val.fields THEN Raises(LibError("KeyError", <<"'files'">>))
        ELSE Returns(j.val.fields.files)

(* call_fn returning response.json() whatever format was asked for *)
call_fn_always_json(o, a, r) ==
    IF r.kind = "failure" THEN Raises(LibError(r.type, <<r.type>>))
    ELSE IF RaisesForStatus(r)
         THEN Raises([type |-> "requests.HTTPError", message |-> HTTPErrorStr(r),
                      status_code |-> <<>>])
    ELSE CASE o \in {"get_file_contents", "get_active_file"} -> ResponseJson(r)
           [] o \in {"list_files_in_vault", "list_files_in_dir"} -> JsonFiles(r)
           [] o \in {"search", "search_json", "search_dql"} -> ResponseJson(r)
           [] OTHER -> Returns(<<>>)

(* call_fn of operation o: the request has been answered with r *)
call_fn(o, a, r) ==
    IF r.kind = "failure" THEN Raises(LibError(r.type, <<r.type>>))
    ELSE IF RaisesForStatus(r)
         THEN Raises([type |-> "requests.HTTPError", message |-> HTTPErrorStr(r),
                      status_code |-> <<>>])
    ELSE CASE o \in {"get_file_contents", "get_active_file"} ->
                IF a.format = "json" THEN ResponseJson(r) ELSE Returns(r.body.text)
           [] o \in {"list_files_in_vault", "list_files_in_dir"} -> JsonFiles(r)
           [] o \in {"search", "search_json", "search_dql"} -> ResponseJson(r)
           [] OTHER -> Returns(<<>>)

(* The except requests.HTTPError branch of _safe_call *)
HandleHTTPError(e, r) ==
    IF r.status = 401
    THEN Raises(AuthenticationError(<<"Authentication failed. Check your API key.">>))
    ELSE IF r.status = 404
    THEN Raises(FileNotFoundError(
                    IF Contains(r.url, <<"/", "vault", "/">>)
                    THEN SplitLast(r.url, <<"/", "vault", "/">>)
                    ELSE <<"unknown">>))
    ELSE LET j == ResponseJson(r)
         IN  IF ~j.ok
             THEN Raises(ObsidianError(e.message, <<r.status>>))
             ELSE IF j.val.t # "object"
             THEN Raises(LibError("AttributeError", <<"object has no attribute 'get'">>))
             ELSE Raises(ObsidianError(
                     IF "message" \in DOMAIN j.val.fields
                     THEN j.val.fields.message ELSE e.message,
                     IF "errorCode" \in DOMAIN j.val.fields
                     THEN <<j.val.fields.errorCode>> ELSE <<r.status>>))

(* _safe_call(call_fn) *)
_safe_call(o, a, r) ==
    LET c == call_fn(o, a, r)
    IN  IF c.ok THEN c
        ELSE IF c.exc.type = "requests.HTTPError" THEN HandleHTTPError(c.exc, r)
        ELSE IF c.exc.type \in RequestsConnectionErrors
        THEN Raises(ConnectionError(
                        <<"Failed to connect to Obsidian API at ">> \o get_base_url))
        ELSE Raises(ObsidianError(<<"Unexpected error: ">> \o c.exc.message, <<>>))

----------------------------------------------------------------------------
(* tools/base.py and tools/files.py: the file tool handlers *)

(* args.get(k) and args.get(k, default) *)
Get(d, k) == IF k \in DOMAIN d THEN <<d[k]>> ELSE <<>>

GetDefault(d, k, default) == IF k \in DOMAIN d THEN d[k] ELSE default

ObsidianErrorTypes ==
    {"ObsidianError", "AuthenticationError", "ConnectionError", "FileNotFoundError",
     "ValidationError", "PluginNotAvailableError", "OperationNotSupportedError"}

(* str(error) *)
Str(e) == IF e.type \in ObsidianErrorTypes THEN ErrorStr(e) ELSE e.message

format_error_for_mcp(error) ==
    [error |->
        [message |-> Str(error),
         type |-> error.type,
         status_code |-> IF error.type \in ObsidianErrorTypes
                              /\ error.status_code # <<>> /\ error.status_code[1] # 0
                         THEN error.status_code[1] ELSE 500,
         details |-> <<>>]]

TextContent(text) == [type |-> "text", text |-> text]

handle_error(error) ==
    <<TextContent(<<"Error: ">> \o format_error_for_mcp(error).error.message)>>

(* json.dumps(value, indent=2) of a parsed JSON value *)
JsonDumps(v) == <<"json.dumps(indent=2) of ", v.src>>

ReadNote_validate_args(a) ==
    LET filepath == validate_filepath(Get(a, "path"))
        format == GetDefault(a, "format", "markdown")
    IN  IF ~filepath.ok THEN filepath
        ELSE IF format \notin {"markdown", "json"}
        THEN Raises(ValidationError(<<"Invalid format: ", format,
                                      ". Must be 'markdown' or 'json'.">>))
        ELSE Returns([path |-> filepath.val, format |-> format])

(* validate_args of CreateNoteToolHandler and of AppendNoteToolHandler *)
WriteNote_validate_args(a) ==
    LET filepath == validate_filepath(Get(a, "path"))
        content == Get(a, "content")
    IN  IF ~filepath.ok THEN filepath
        ELSE IF Falsy(content) THEN Raises(ValidationError(<<"Content is required">>))
        ELSE Returns([path |-> filepath.val, content |-> content[1]])

PatchNote_validate_args(a) ==
    LET filepath == validate_filepath(Get(a, "path"))
        operation == GetDefault(a, "operation", "append")
        target_type == GetDefault(a, "target_type", "heading")
        target == Get(a, "target")
        content == Get(a, "content")
    IN  IF ~filepath.ok THEN filepath
        ELSE IF operation \notin {"append", "prepend", "replace"}
        THEN Raises(ValidationError(<<"Invalid operation: ", operation,
                                      ". Must be 'append', 'prepend', or 'replace'.">>))
        ELSE IF target_type \notin {"heading", "block", "frontmatter"}
        THEN Raises(ValidationError(<<"Invalid target_type: ", target_type,
                                      ". Must be 'heading', 'block', or 'frontmatter'.">>))
        ELSE IF Falsy(target) THEN Raises(ValidationError(<<"Target is required">>))
        ELSE IF Falsy(content) THEN Raises(ValidationError(<<"Content is required">>))
        ELSE Returns([path |-> filepath.val, operation |-> operation,
                      target_type |-> target_type, target |-> target[1],
                      content |-> content[1],
                      create_target_if_missing |->
                          GetDefault(a, "create_target_if_missing", TRUE)])

DeleteNote_validate_args(a) ==
    LET filepath == validate_filepath(Get(a, "path"))
        confirm == GetDefault(a, "confirm", FALSE)
    IN  IF ~filepath.ok THEN filepath
        ELSE IF ~confirm
        THEN Raises(ValidationError(<<"Confirm must be true to delete a note">>))
        ELSE Returns([path |-> filepath.val, confirm |-> confirm])

validate_args(t, a) ==
    CASE t = "obsidian_read_note" -> ReadNote_validate_args(a)
      [] t \in {"obsidian_create_note", "obsidian_append_note"} -> WriteNote_validate_args(a)
      [] t = "obsidian_patch_note" -> PatchNote_validate_args(a)
      [] t = "obsidian_delete_note" -> DeleteNote_validate_args(a)

(* The client operation run_tool of handler t calls, and its arguments *)
ToolOp(t) ==
    CASE t = "obsidian_read_note" -> "get_file_contents"
      [] t = "obsidian_create_note" -> "create_or_update_file"
      [] t = "obsidian_append_note" -> "append_content"
      [] t = "obsidian_patch_note" -> "patch_content"
      [] t = "obsidian_delete_note" -> "delete_file"

ToolOpArgs(t, v) ==
    CASE t = "obsidian_read_note" -> [filepath |-> v.path, format |-> v.format]
      [] t \in {"obsidian_create_note", "obsidian_append_note"} ->
            [filepath |-> v.path, content |-> v.content]
      [] t = "obsidian_patch_note" ->
            [filepath |-> v.path, operation |-> v.operation,
             target_type |-> v.target_type, target |-> v.target,
             content |-> v.content,
             create_target_if_missing |-> v.create_target_if_missing]
      [] t = "obsidian_delete_note" -> [filepath |-> v.path]

(* The text run_tool of handler t returns when the client call returned val *)
SuccessText(t, v, val) ==
    CASE t = "obsidian_read_note" -> IF v.format = "json" THEN JsonDumps(val) ELSE val
      [] t = "obsidian_create_note" -> <<"Successfully created/updated note at ">> \o v.path
      [] t = "obsidian_append_note" -> <<"Successfully appended content to note at ">> \o v.path
      [] t = "obsidian_patch_note" -> <<"Successfully patched content in note at ">> \o v.path
      [] t = "obsidian_delete_note" -> <<"Successfully deleted note at ">> \o v.path

(* run_tool of handler t: try the client call, except Exception: handle_error *)
run_tool(t, v, r) ==
    LET out == _safe_call(ToolOp(t), ToolOpArgs(t, v), r)
    IN  IF out.ok
        THEN [content |-> <<TextContent(SuccessText(t, v, out.val))>>, caught |-> <<>>]
        ELSE [content |-> handle_error(out.exc), caught |-> <<out.exc>>]

----------------------------------------------------------------------------
(* Values of the variables a specification does not use *)

PathIdle == fn = "none" /\ fnIn = <<>> /\ fnOut = Returns(<<>>)

ToolIdle == tool = "none" /\ args = <<>> /\ vargs = <<>> /\ caught = <<>>

ClientIdle == op = "none" /\ opArgs = <<>>

IoIdle == requests = <<>> /\ resp = <<>> /\ raised = <<>> /\ result = <<>>

VaultIdle == vault = <<>> /\ vaultBefore = <<>> /\ opBefore = <<>>

ServerIdle ==
    /\ environ = <<>> /\ client = <<>> /\ built = 0 /\ tasks = <<>>
    /\ _config = <<>> /\ resets = 0

----------------------------------------------------------------------------
(* Specification of the tool handlers: one invocation, validate_args       *)
(* followed by run_tool, of a constructed handler                          *)

EmptyArgs == <<>>

(* The dictionary with key k when the optional value is given *)
Field(k, opt) == IF opt = <<>> THEN EmptyArgs ELSE k :> opt[1]

OptFormats == {<<>>, <<"markdown">>, <<"json">>, <<"html">>}

OptContents == {<<>>, << <<>> >>, << <<"A">> >>}

OptOperations == {<<>>, <<"replace">>, <<"delete">>}

OptTargetTypes == {<<>>, <<"block">>, <<"line">>}

OptTargets == {<<>>, << <<>> >>, << <<"T">> >>, << <<"T", " ", "T">> >>}

OptFlags == {<<>>, <<FALSE>>}

OptConfirms == {<<>>, <<TRUE>>, <<FALSE>>}

Invocations ==
    {[tool |-> "obsidian_read_note", args |-> Field("path", p) @@ Field("format", f)] :
        p \in OptPaths, f \in OptFormats}
    \cup
    {[tool |-> t, args |-> Field("path", p) @@ Field("content", c)] :
        t \in {"obsidian_create_note", "obsidian_append_note"},
        p \in OptPaths, c \in OptContents}
    \cup
    {[tool |-> "obsidian_patch_note",
      args |-> Field("path", p) @@ Field("operation", o) @@ Field("target_type", tt)
               @@ Field("target", tg) @@ Field("content", c)
               @@ Field("create_target_if_missing", fl)] :
        p \in OptPaths, o \in OptOperations, tt \in OptTargetTypes,
        tg \in OptTargets, c \in OptContents, fl \in OptFlags}
    \cup
    {[tool |-> "obsidian_delete_note", args |-> Field("path", p) @@ Field("confirm", c)] :
        p \in OptPaths, c \in OptConfirms}

Init ==
    /\ pc = "idle"
    /\ \E inv \in Invocations : tool = inv.tool /\ args = inv.args
    /\ vargs = <<>> /\ caught = <<>>
    /\ PathIdle /\ ClientIdle /\ IoIdle /\ VaultIdle /\ ServerIdle

(* handler.validate_args(args): returns the validated dictionary or raises *)
ValidateArgs ==
    /\ pc = "idle"
    /\ LET v == validate_args(tool, args)
       IN  IF v.ok
           THEN /\ pc' = "validated"
                /\ vargs' = v.val
                /\ raised' = <<>>
           ELSE /\ pc' = "done"
                /\ vargs' = <<>>
                /\ raised' = <<v.exc>>
    /\ UNCHANGED <<tool, args, caught, requests, resp, result>>
    /\ UNCHANGED <<pathVars, clientVars, vaultVars, serverVars>>

(* handler.run_tool(validated arguments) *)
RunTool ==
    /\ pc = "validated"
    /\ LET req == BuildRequest(ToolOp(tool), ToolOpArgs(tool, vargs))
       IN  \E r \in TransportAnswers(req) :
               LET out == run_tool(tool, vargs, r)
               IN  /\ requests' = <<req>>
                   /\ resp' = r
                   /\ result' = <<out.content>>
                   /\ caught' = out.caught
    /\ pc' = "done"
    /\ UNCHANGED <<tool, args, vargs, raised>>
    /\ UNCHANGED <<pathVars, clientVars, vaultVars, serverVars>>

Next == ValidateArgs \/ RunTool

Spec == Init /\ [][Next]_vars

----------------------------------------------------------------------------
(* Specification of the pure path functions: Init draws the argument *)

InitPath ==
    /\ pc = "ready"
    /\ fn = "none" /\ fnIn \in OptPaths /\ fnOut = Returns(<<>>)
    /\ ToolIdle /\ ClientIdle /\ IoIdle /\ VaultIdle /\ ServerIdle

ApplyValidateFilepath ==
    /\ pc = "ready"
    /\ pc' = "done"
    /\ fn' = "validate_filepath"
    /\ fnOut' = validate_filepath(fnIn)
    /\ UNCHANGED <<fnIn, tool, args, vargs, caught, clientVars, ioVars, vaultVars, serverVars>>

ApplyValidateDirpath ==
    /\ pc = "ready"
    /\ pc' = "done"
    /\ fn' = "validate_dirpath"
    /\ fnOut' = validate_dirpath(fnIn)
    /\ UNCHANGED <<fnIn, tool, args, vargs, caught, clientVars, ioVars, vaultVars, serverVars>>

NextPath == ApplyValidateFilepath \/ ApplyValidateDirpath

SpecPath == InitPath /\ [][NextPath]_vars

----------------------------------------------------------------------------
(* Specification of the client operations (obsidian.py) against a          *)
(* transport that may answer anything: Init draws the call                 *)

Formats == {"markdown", "json"}

(* The paths the client operations are called with: every short path and   *)
(* a note inside a folder that is itself named vault                       *)
ClientPaths == Paths \cup {<<"a", "/", "vault", "/", "a">>}

Contents == {<<"A">>}

Targets == {<<"T">>, <<"T", " ", "T">>}

PatchArgs(target, content) ==
    [operation |-> "append", target_type |-> "heading", target |-> target,
     content |-> content, create_target_if_missing |-> TRUE]

ClientCalls ==
    {[o |-> "get_file_contents", a |-> [filepath |-> p, format |-> f]] :
        p \in ClientPaths, f \in Formats}
    \cup {[o |-> o, a |-> [filepath |-> p, content |-> c]] :
        o \in {"create_or_update_file", "append_content"}, p \in ClientPaths, c \in Contents}
    \cup {[o |-> "patch_content", a |-> [filepath |-> p] @@ PatchArgs(t, c)] :
        p \in ClientPaths, t \in Targets, c \in Contents}
    \cup {[o |-> "delete_file", a |-> [filepath |-> p]] : p \in ClientPaths}
    \cup {[o |-> "get_active_file", a |-> [format |-> f]] : f \in Formats}
    \cup {[o |-> o, a |-> [content |-> c]] :
        o \in {"update_active_file", "append_active_file"}, c \in Contents}
    \cup {[o |-> "patch_active_file", a |-> PatchArgs(t, c)] :
        t \in Targets, c \in Contents}
    \cup {[o |-> o, a |-> EmptyArgs] : o \in {"delete_active_file", "list_files_in_vault"}}
    \cup {[o |-> "show_file", a |-> [filepath |-> p, new_leaf |-> l]] :
        p \in ClientPaths, l \in BOOLEAN}
    \cup {[o |-> "list_files_in_dir", a |-> [dirpath |-> p]] : p \in ClientPaths}
    \cup {[o |-> "search", a |-> [query |-> q, context_length |-> 100]] : q \in Contents}
    \cup {[o |-> o, a |-> [query |-> q]] :
        o \in {"search_json", "search_dql"}, q \in Contents}

InitClient ==
    /\ pc = "ready"
    /\ \E c \in ClientCalls : op = c.o /\ opArgs = c.a
    /\ PathIdle /\ ToolIdle /\ IoIdle /\ VaultIdle /\ ServerIdle

(* _safe_call calling func() again after a transport failure *)
SafeCallRequests_retry(o, a, r) ==
    IF r.kind = "failure" THEN <<BuildRequest(o, a), BuildRequest(o, a)>>
    ELSE <<BuildRequest(o, a)>>

(* The requests one _safe_call(call_fn) issues when the transport answers  *)
(* r: func() is called once and call_fn holds one requests call            *)
SafeCallRequests(o, a, r) == <<BuildRequest(o, a)>>

(* One call of client operation o: the request is issued once, answered    *)
(* by r, and _safe_call returns the value or raises                        *)
Exchange(o, a, r) ==
    LET out == _safe_call(o, a, r)
    IN  /\ requests' = SafeCallRequests(o, a, r)
        /\ resp' = r
        /\ raised' = IF out.ok THEN <<>> ELSE <<out.exc>>
        /\ result' = IF out.ok THEN <<out.val>> ELSE <<>>

Call(o) ==
    /\ pc = "ready"
    /\ op = o
    /\ pc' = "done"
    /\ \E r \in TransportAnswers(BuildRequest(o, opArgs)) : Exchange(o, opArgs, r)
    /\ UNCHANGED <<pathVars, tool, args, vargs, caught, clientVars, vaultVars, serverVars>>

get_file_contents == Call("get_file_contents")

create_or_update_file == Call("create_or_update_file")

append_content == Call("append_content")

patch_content == Call("patch_content")

delete_file == Call("delete_file")

get_active_file == Call("get_active_file")

update_active_file == Call("update_active_file")

append_active_file == Call("append_active_file")

patch_active_file == Call("patch_active_file")

delete_active_file == Call("delete_active_file")

show_file == Call("show_file")

list_files_in_vault == Call("list_files_in_vault")

list_files_in_dir == Call("list_files_in_dir")

search == Call("search")

search_json == Call("search_json")

search_dql == Call("search_dql")

NextClient ==
    \/ get_file_contents
    \/ create_or_update_file
    \/ append_content
    \/ patch_content
    \/ delete_file
    \/ get_active_file
    \/ update_active_file
    \/ append_active_file
    \/ patch_active_file
    \/ delete_active_file
    \/ show_file
    \/ list_files_in_vault
    \/ list_files_in_dir
    \/ search
    \/ search_json
    \/ search_dql

SpecClient == InitClient /\ [][NextClient]_vars

----------------------------------------------------------------------------
(* Specification of the note operations of the client against an upstream  *)
(* vault.  The upstream is the Obsidian Local REST API: GET returns the    *)
(* stored body or 404, PUT stores the data, POST appends the data it was   *)
(* sent to the stored body (creating the note when it is missing), DELETE  *)
(* removes the note or answers 404.                                        *)

VaultPaths == {<<"a">>, <<"b">>}

(* The paths callers name the notes by: with and without a leading "/" *)
CallerPaths == {<<"a">>, <<"/", "a">>, <<"b">>}

VaultContents == {<<"A">>, <<"C">>}

(* Separator the upstream itself puts before appended data: some versions  *)
(* add a line break when the stored body does not end with one             *)
UpstreamSeparators == {<<>>, <<"\n">>}

(* The vault path a request addresses *)
RequestPath(req) == SubSeq(req.url, Len(get_base_url) + 4, Len(req.url))

NoContent == Body(<<>>, <<>>)

NotFoundBody ==
    JsonBody(JsonObject([message |-> <<"Not Found">>, errorCode |-> 40400],
                        "{\"message\":\"Not Found\",\"errorCode\":40400}"))

(* The vault after the upstream handled req, sep being its separator *)
UpstreamEffect(v, req, sep) ==
    LET p == RequestPath(req)
    IN  CASE req.method = "PUT" -> [v EXCEPT ![p] = <<req.data[1]>>]
          [] req.method = "POST" ->
                [v EXCEPT ![p] = IF v[p] = <<>> THEN <<req.data[1]>>
                                 ELSE <<v[p][1] \o sep \o req.data[1]>>]
          [] req.method = "DELETE" -> [v EXCEPT ![p] = <<>>]
          [] OTHER -> v

(* The response of the upstream to req *)
UpstreamAnswer(v, req) ==
    LET p == RequestPath(req)
        url == RequoteUri(req.url)
    IN  CASE req.method = "GET" ->
                IF v[p] = <<>> THEN Response(404, NotFoundBody, url)
                ELSE Response(200, Body(v[p][1], <<>>), url)
          [] req.method = "DELETE" ->
                IF v[p] = <<>> THEN Response(404, NotFoundBody, url)
                ELSE Response(204, NoContent, url)
          [] OTHER -> Response(204, NoContent, url)

InitVault ==
    /\ pc = "ready"
    /\ vault \in [VaultPaths -> {<< <<"B">> >>}]
    /\ vaultBefore = vault
    /\ opBefore = [op |-> "none", args |-> <<>>, ok |-> TRUE]
    /\ PathIdle /\ ToolIdle /\ ClientIdle /\ IoIdle /\ ServerIdle

(* Client operation o with arguments a, answered by the upstream vault *)
VaultCall(o, a) ==
    LET req == BuildRequest(o, a)
    IN  /\ pc \in {"ready", "done"}
        /\ pc' = "done"
        /\ op' = o
        /\ opArgs' = a
        /\ opBefore' = [op |-> op, args |-> opArgs, ok |-> raised = <<>>]
        /\ \E sep \in UpstreamSeparators :
              /\ vault' = UpstreamEffect(vault, req, sep)
              /\ \A q \in VaultPaths :
                    vault'[q] # <<>> => Len(vault'[q][1]) <= MaxBodyLen
        /\ vaultBefore' = vault
        /\ Exchange(o, a, UpstreamAnswer(vault, req))
        /\ UNCHANGED <<pathVars, toolVars, serverVars>>

(* The note operations as the file tools call them: on the path            *)
(* validate_filepath returned for the caller's path p                      *)
VaultRead(p) ==
    VaultCall("get_file_contents",
              [filepath |-> validate_filepath(<<p>>).val, format |-> "markdown"])

VaultCreate(p, c) ==
    VaultCall("create_or_update_file",
              [filepath |-> validate_filepath(<<p>>).val, content |-> c])

VaultAppend(p, c) ==
    VaultCall("append_content",
              [filepath |-> validate_filepath(<<p>>).val, content |-> c])

VaultDelete(p) ==
    VaultCall("delete_file", [filepath |-> validate_filepath(<<p>>).val])

NextVault ==
    \/ \E p \in CallerPaths : VaultRead(p)
    \/ \E p \in CallerPaths, c \in VaultContents : VaultCreate(p, c)
    \/ \E p \in CallerPaths, c \in Contents : VaultAppend(p, c)
    \/ \E p \in CallerPaths : VaultDelete(p)

SpecVault == InitVault /\ [][NextVault]_vars

----------------------------------------------------------------------------
(* Specification of the batch read helper (get_batch_file_contents): Init  *)
(* draws the list of paths, each turn of the loop reads one path           *)

MaxBatch == 2

BatchPaths == {<<"a">>, <<"b">>}

BatchLists == SeqsUpTo(BatchPaths, MaxBatch)

(* What the transport answers to the reads of a batch: every failure, and  *)
(* a text body or a JSON list under the statuses 200, 404 and 500          *)
BatchAnswers(req) ==
    {Failure(t) : t \in TransportFailures}
        \cup {Response(st, b, RequoteUri(req.url)) :
                st \in {200, 404, 500},
                b \in {Body(<<"A">>, <<>>), JsonBody(JsonOther("list", "[]"))}}

(* The body of the loop without its try/except: a failed read leaves the   *)
(* helper                                                                  *)
BatchStep_no_except(acc, filepath, out) ==
    IF out.ok
    THEN Returns(acc \o <<"# ">> \o filepath \o <<"\n\n">> \o out.val \o <<"\n\n---\n\n">>)
    ELSE Raises(out.exc)

(* The body of the loop: out is the outcome of get_file_contents(filepath) *)
(* and acc the sections appended so far                                    *)
BatchStep(acc, filepath, out) ==
    IF out.ok
    THEN Returns(acc \o <<"# ">> \o filepath \o <<"\n\n">> \o out.val \o <<"\n\n---\n\n">>)
    ELSE Returns(acc \o <<"# ">> \o filepath \o <<"\n\n", "Error reading file: ">>
                     \o Str(out.exc) \o <<"\n\n---\n\n">>)

InitBatch ==
    /\ pc = "ready"
    /\ op = "get_batch_file_contents"
    /\ \E l \in BatchLists : opArgs = [filepaths |-> l]
    /\ requests = <<>> /\ resp = <<>> /\ raised = <<>> /\ result = << <<>> >>
    /\ PathIdle /\ ToolIdle /\ VaultIdle /\ ServerIdle

(* One turn of the loop: the next path is read *)
BatchRead ==
    /\ pc = "ready"
    /\ Len(requests) < Len(opArgs.filepaths)
    /\ LET filepath == opArgs.filepaths[Len(requests) + 1]
           a == [filepath |-> filepath, format |-> "markdown"]
           req == BuildRequest("get_file_contents", a)
       IN  \E r \in BatchAnswers(req) :
               LET step == BatchStep(result[1], filepath,
                                     _safe_call("get_file_contents", a, r))
               IN  /\ requests' = requests \o SafeCallRequests("get_file_contents", a, r)
                   /\ resp' = Append(resp, r)
                   /\ IF step.ok
                      THEN /\ result' = <<step.val>>
                           /\ UNCHANGED <<pc, raised>>
                      ELSE /\ result' = <<>>
                           /\ raised' = <<step.exc>>
                           /\ pc' = "done"
    /\ UNCHANGED <<pathVars, toolVars, clientVars, vaultVars, serverVars>>

(* The loop is over: return "".join(result) *)
BatchReturn ==
    /\ pc = "ready"
    /\ Len(requests) = Len(opArgs.filepaths)
    /\ pc' = "done"
    /\ UNCHANGED <<pathVars, toolVars, clientVars, ioVars, vaultVars, serverVars>>

NextBatch == BatchRead \/ BatchReturn

SpecBatch == InitBatch /\ [][NextBatch]_vars

----------------------------------------------------------------------------
(* server.py, obsidian_search: the query handed to the client.  A query is *)
(* a sequence of the tokens the code looks at (".md", " ", ":") and of     *)
(* tokens that stand for other text; the prefix "file:" is the two tokens  *)
(* "file" and ":".                                                         *)

MaxQueryLen == 3

QueryTokens == {"note", ".md", " ", ":"}

Queries == SeqsUpTo(QueryTokens, MaxQueryLen)

(* The rewriting without the test for an operator *)
RewriteQuery_no_operator_test(query) ==
    IF EndsWith(query, <<".md">>) /\ ~Contains(query, <<" ">>)
    THEN <<"file", ":">> \o query
    ELSE query

(* if query.endswith('.md') and ' ' not in query and ':' not in query *)
RewriteQuery(query) ==
    IF EndsWith(query, <<".md">>) /\ ~Contains(query, <<" ">>) /\ ~Contains(query, <<":">>)
    THEN <<"file", ":">> \o query
    ELSE query

InitQuery ==
    /\ pc = "ready"
    /\ fn = "none" /\ fnOut = Returns(<<>>)
    /\ \E q \in Queries : fnIn = <<q>>
    /\ ToolIdle /\ ClientIdle /\ IoIdle /\ VaultIdle /\ ServerIdle

ApplyRewriteQuery ==
    /\ pc = "ready"
    /\ pc' = "done"
    /\ fn' = "RewriteQuery"
    /\ fnOut' = Returns(RewriteQuery(fnIn[1]))
    /\ UNCHANGED <<fnIn, toolVars, clientVars, ioVars, vaultVars, serverVars>>

NextQuery == ApplyRewriteQuery

SpecQuery == InitQuery /\ [][NextQuery]_vars

----------------------------------------------------------------------------
(* Specification of the decorator tools of server.py.  The tools are       *)
(* coroutines on one event loop: an invocation runs without interruption   *)
(* from one await that suspends to the next, so each action below is the   *)
(* code between two suspensions.  server.py reads the profile as           *)
(* config.api_key and calls client.connect, client.get_note_content and    *)
(* client.delete_note; these are not in config.py and obsidian.py and are  *)
(* modelled from the specification: connect tests the connection with one  *)
(* request and each note operation issues the request of its row in the    *)
(* operation table.                                                        *)

MaxTasks == 2

TaskIds == 1..MaxTasks

(* OBSIDIAN_API_KEY: unset, empty or set *)
EnvKeys == {<<>>, << <<>> >>, << <<"KEY">> >>}

ServerPaths == {<<"a">>}

(* The tool calls of a host: delete is also called with the confirm        *)
(* argument of the delete tool's schema in tools/files.py, which the       *)
(* signature of the decorated function does not have; the listing is       *)
(* called for the vault root and for a folder                              *)
ServerInvocations ==
    {[tool |-> "obsidian_read_note", args |-> [path |-> p]] : p \in ServerPaths}
    \cup
    {[tool |-> "obsidian_delete_note", args |-> [path |-> p] @@ Field("confirm", c)] :
        p \in ServerPaths, c \in OptConfirms}
    \cup
    {[tool |-> "obsidian_list_files", args |-> [folder |-> p]] :
        p \in {<<>>} \cup ServerPaths}

(* config.py, load_config: the key is required *)
load_config(env) ==
    IF Falsy(env)
    THEN Raises(LibError("ValueError",
                         <<"OBSIDIAN_API_KEY environment variable is required">>))
    ELSE Returns([api_key |-> env[1], host |-> Config.host, port |-> Config.port,
                  protocol |-> Config.protocol, verify_ssl |-> Config.verify_ssl,
                  timeout |-> Config.timeout])

(* initialize_client without the statement "global client": the object is  *)
(* bound to a local name                                                   *)
initialize_client_not_global(handle, env, n) ==
    IF handle # <<>>
    THEN [client |-> handle, built |-> n, exc |-> <<>>, connecting |-> FALSE]
    ELSE LET config == load_config(env)
         IN  IF ~config.ok
             THEN [client |-> handle, built |-> n, exc |-> <<config.exc>>,
                   connecting |-> FALSE]
             ELSE [client |-> handle, built |-> n + 1, exc |-> <<>>, connecting |-> TRUE]

(* initialize_client building the client without loading and validating    *)
(* the configuration first                                                 *)
initialize_client_no_key_check(handle, env, n) ==
    IF handle # <<>>
    THEN [client |-> handle, built |-> n, exc |-> <<>>, connecting |-> FALSE]
    ELSE [client |-> <<n + 1>>, built |-> n + 1, exc |-> <<>>, connecting |-> TRUE]

(* initialize_client up to "await client.connect()": handle is the global  *)
(* client, n the number of clients built so far.  The outcome holds the    *)
(* global client and the count afterwards, the exception raised if any,    *)
(* and whether the coroutine now awaits the connection test.               *)
initialize_client(handle, env, n) ==
    IF handle # <<>>
    THEN [client |-> handle, built |-> n, exc |-> <<>>, connecting |-> FALSE]
    ELSE LET config == load_config(env)
         IN  IF ~config.ok
             THEN [client |-> handle, built |-> n, exc |-> <<config.exc>>,
                   connecting |-> FALSE]
             ELSE IF config.val.api_key = <<>>
             THEN [client |-> handle, built |-> n,
                   exc |-> <<LibError("ConfigurationError",
                                      <<"Missing required configuration. Please set OBSIDIAN_API_KEY.">>)>>,
                   connecting |-> FALSE]
             ELSE [client |-> <<n + 1>>, built |-> n + 1, exc |-> <<>>,
                   connecting |-> TRUE]

(* The request of client.connect() *)
ConnectRequest == Request("GET", get_base_url \o <<"/">>, _get_headers, <<>>)

(* The path a tool hands to the client: obsidian_list_files appends a "/"  *)
(* to a folder that is not empty and does not end with one, the other      *)
(* tools pass their path on unchanged                                      *)
RequestedPath(t, a) ==
    IF t = "obsidian_list_files"
    THEN IF a.folder # <<>> /\ ~EndsWith(a.folder, <<"/">>) THEN a.folder \o <<"/">>
         ELSE a.folder
    ELSE a.path

(* The request of client.get_note_content(path), client.delete_note(path)  *)
(* and client.list_files(folder)                                           *)
AsyncRequest(t, a) ==
    Request(IF t = "obsidian_delete_note" THEN "DELETE" ELSE "GET",
            VaultUrl(RequestedPath(t, a)), _get_headers, <<>>)

(* The exceptions a client operation raises: the missing note or folder,   *)
(* an error answer of the upstream and a failed connection                 *)
ClientFailures ==
    {LibError("ObsidianNotFoundError", <<"Not found">>),
     ObsidianError(<<"x">>, <<500>>),
     ConnectionError(<<"Failed to connect to Obsidian API">>)}

(* A tool with the one clause "except ObsidianError", as                   *)
(* obsidian_create_note has it, and no clause for the missing note         *)
Translate_no_not_found_clause(t, a, e) ==
    LibError("RuntimeError",
             <<CASE t = "obsidian_read_note" -> "Failed to read note: "
                 [] t = "obsidian_delete_note" -> "Failed to delete note: "
                 [] t = "obsidian_list_files" -> "Failed to list files: ">>
                 \o ErrorStr(e))

(* The except clauses around the client call of tool t, called with the    *)
(* arguments a, when the call raises e                                     *)
Translate(t, a, e) ==
    IF e.type = "ObsidianNotFoundError"
    THEN LibError("ValueError",
                  <<IF t = "obsidian_list_files" THEN "Folder not found: "
                    ELSE "Note not found: ">> \o RequestedPath(t, a))
    ELSE LibError("RuntimeError",
                  <<CASE t = "obsidian_read_note" -> "Failed to read note: "
                      [] t = "obsidian_delete_note" -> "Failed to delete note: "
                      [] t = "obsidian_list_files" -> "Failed to list files: ">>
                      \o ErrorStr(e))

(* "await client.<operation>(path)" of a tool: the global client is read   *)
(* when the call is made                                                   *)
Dispatched(task, handle) ==
    IF handle = <<>>
    THEN [task EXCEPT !.pc = "done",
                      !.raised = <<LibError("AttributeError",
                                            <<"'NoneType' object has no attribute">>)>>]
    ELSE [task EXCEPT !.pc = "calling",
                      !.used = handle,
                      !.requests = Append(@, AsyncRequest(task.tool, task.args))]

InitServer ==
    /\ pc = "ready"
    /\ environ \in EnvKeys
    /\ client = <<>>
    /\ built = 0
    /\ _config = <<>> /\ resets = 0
    /\ tasks \in [TaskIds -> {[pc |-> "start", tool |-> inv.tool, args |-> inv.args,
                               used |-> <<>>, requests |-> <<>>, caught |-> <<>>,
                               raised |-> <<>>] :
                              inv \in ServerInvocations}]
    /\ PathIdle /\ ToolIdle /\ ClientIdle /\ IoIdle /\ VaultIdle

(* A tool is entered: "if not client: await initialize_client()", then     *)
(* the call of the client operation when nothing suspends before it        *)
Enter(t) ==
    /\ tasks[t].pc = "start"
    /\ LET i == IF client = <<>> THEN initialize_client(client, environ, built)
                ELSE [client |-> client, built |-> built, exc |-> <<>>,
                      connecting |-> FALSE]
       IN  /\ client' = i.client
           /\ built' = i.built
           /\ tasks' = [tasks EXCEPT ![t] =
                  IF i.exc # <<>> THEN [@ EXCEPT !.pc = "done", !.raised = i.exc]
                  ELSE IF i.connecting
                  THEN [@ EXCEPT !.pc = "connecting",
                                 !.requests = Append(@, ConnectRequest)]
                  ELSE Dispatched(@, i.client)]
    /\ UNCHANGED <<pc, environ, _config, resets>>
    /\ UNCHANGED <<pathVars, toolVars, clientVars, ioVars, vaultVars>>

(* client.connect() has answered: initialize_client returns or raises      *)
(* ConfigurationError, and the tool goes on to its client call             *)
Connected(t) ==
    /\ tasks[t].pc = "connecting"
    /\ \E outcome \in {"connected", "not connected", "ObsidianError"} :
          tasks' = [tasks EXCEPT ![t] =
              IF outcome = "connected" THEN Dispatched(@, client)
              ELSE [@ EXCEPT !.pc = "done",
                             !.raised = <<LibError("ConfigurationError",
                                                   <<"Failed to connect to Obsidian API">>)>>]]
    /\ UNCHANGED <<pc, environ, client, built, _config, resets>>
    /\ UNCHANGED <<pathVars, toolVars, clientVars, ioVars, vaultVars>>

(* The client call of a tool has answered: the tool returns, or the       *)
(* client has raised and the tool raises what its except clauses make of   *)
(* the exception                                                           *)
Answered(t) ==
    /\ tasks[t].pc = "calling"
    /\ \E outcome \in {<<>>} \cup {<<e>> : e \in ClientFailures} :
          tasks' = [tasks EXCEPT ![t] =
              [@ EXCEPT !.pc = "done",
                        !.caught = outcome,
                        !.raised =
                            IF outcome = <<>> THEN <<>>
                            ELSE <<Translate(tasks[t].tool, tasks[t].args,
                                             outcome[1])>>]]
    /\ UNCHANGED <<pc, environ, client, built, _config, resets>>
    /\ UNCHANGED <<pathVars, toolVars, clientVars, ioVars, vaultVars>>

NextServer ==
    \/ \E t \in TaskIds : Enter(t)
    \/ \E t \in TaskIds : Connected(t)
    \/ \E t \in TaskIds : Answered(t)

SpecServer == InitServer /\ [][NextServer]_vars

----------------------------------------------------------------------------
(* Specification of concurrent appends: several callers of append_content  *)
(* against the upstream vault.  A call is two steps, the request reaching  *)
(* the upstream and the response reaching the caller; the upstream handles *)
(* one request at a time.                                                  *)

InitAppend ==
    /\ pc = "ready"
    /\ vault \in [VaultPaths -> {<< <<"B">> >>}]
    /\ vaultBefore = vault
    /\ opBefore = <<>>
    /\ tasks \in [TaskIds -> {[pc |-> "start", tool |-> "append_content",
                               args |-> [filepath |-> p, content |-> c],
                               used |-> <<>>, requests |-> <<>>, raised |-> <<>>,
                               resp |-> <<>>] :
                              p \in VaultPaths, c \in VaultContents}]
    /\ environ = <<>> /\ client = <<>> /\ built = 0
    /\ _config = <<>> /\ resets = 0
    /\ PathIdle /\ ToolIdle /\ ClientIdle /\ IoIdle

(* call_fn of append_content: the request is sent and the upstream         *)
(* handles it                                                              *)
AppendSend(t) ==
    /\ tasks[t].pc = "start"
    /\ LET a == tasks[t].args
           req == BuildRequest("append_content", a)
       IN  /\ \E sep \in UpstreamSeparators : vault' = UpstreamEffect(vault, req, sep)
           /\ tasks' = [tasks EXCEPT ![t] =
                  [@ EXCEPT !.pc = "calling",
                            !.requests = @ \o SafeCallRequests("append_content", a,
                                                               UpstreamAnswer(vault, req)),
                            !.resp = UpstreamAnswer(vault, req)]]
    /\ UNCHANGED <<pc, vaultBefore, opBefore, environ, client, built, _config, resets>>
    /\ UNCHANGED <<pathVars, toolVars, clientVars, ioVars>>

(* The response has arrived: _safe_call returns or raises *)
AppendReturn(t) ==
    /\ tasks[t].pc = "calling"
    /\ LET out == _safe_call("append_content", tasks[t].args, tasks[t].resp)
       IN  tasks' = [tasks EXCEPT ![t] =
               [@ EXCEPT !.pc = "done",
                         !.raised = IF out.ok THEN <<>> ELSE <<out.exc>>]]
    /\ UNCHANGED <<pc, vaultVars, environ, client, built, _config, resets>>
    /\ UNCHANGED <<pathVars, toolVars, clientVars, ioVars>>

NextAppend ==
    \/ \E t \in TaskIds : AppendSend(t)
    \/ \E t \in TaskIds : AppendReturn(t)

SpecAppend == InitAppend /\ [][NextAppend]_vars

----------------------------------------------------------------------------
(* Specification of parse_frontmatter (obsidian.py): Init draws the body   *)
(* of a note, a text of single characters, so that the marker "---" is     *)
(* found where str.startswith and str.find find it.  What yaml.safe_load   *)
(* makes of the text between the markers is the library's answer.          *)

MaxNoteLen == 7

(* The characters of a note body: the dash of the marker, a line break     *)
(* and a character of the text                                             *)
NoteChars == {"-", "\n", "k"}

(* content[3:end_index].strip() for end_index = content.find("---", 3):    *)
(* <<>> when the body does not start with the marker or no marker follows, *)
(* else the text between the markers without the white space around it     *)
FrontmatterText(content) ==
    LET rest == SubSeq(content, 4, Len(content))
        end_index == Find(rest, <<"-", "-", "-">>)
        between == SubSeq(rest, 1, end_index - 1)
        inked == {i \in 1..Len(between) : between[i] # "\n"}
    IN  IF ~StartsWith(content, <<"-", "-", "-">>) \/ end_index = 0 THEN <<>>
        ELSE IF inked = {} THEN << <<>> >>
        ELSE <<SubSeq(between,
                      CHOOSE i \in inked : \A j \in inked : i <= j,
                      CHOOSE i \in inked : \A j \in inked : i >= j)>>

(* yaml.safe_load(text): None for the empty text; for another text None,   *)
(* a mapping, a value that is no mapping, or an exception of the parser    *)
yaml_safe_load(text) ==
    IF text = <<>> THEN {Returns([t |-> "None", src |-> <<>>])}
    ELSE {Returns([t |-> "None", src |-> <<>>]),
          Returns([t |-> "map", src |-> text]),
          Returns([t |-> "str", src |-> text]),
          Raises(LibError("yaml.YAMLError", <<"while parsing">>))}

(* parse_frontmatter without the try/except around the parsing *)
parse_frontmatter_no_except(content, y) ==
    IF FrontmatterText(content) = <<>> THEN Returns([t |-> "map", src |-> <<>>])
    ELSE IF ~y[1].ok THEN y[1]
    ELSE IF y[1].val.t = "None" THEN Returns([t |-> "map", src |-> <<>>])
    ELSE y[1]

(* parse_frontmatter(content); y is what yaml.safe_load answers when it is *)
(* called, <<>> when it is not.  The empty mapping has the source <<>>.    *)
parse_frontmatter(content, y) ==
    IF FrontmatterText(content) = <<>> THEN Returns([t |-> "map", src |-> <<>>])
    ELSE IF ~y[1].ok THEN Returns([t |-> "map", src |-> <<>>])
    ELSE IF y[1].val.t = "None" THEN Returns([t |-> "map", src |-> <<>>])
    ELSE y[1]

InitFrontmatter ==
    /\ pc = "ready"
    /\ fn = "none" /\ fnOut = Returns(<<>>)
    /\ \E c \in SeqsUpTo(NoteChars, MaxNoteLen) : fnIn = <<c>>
    /\ ToolIdle /\ ClientIdle /\ IoIdle /\ VaultIdle /\ ServerIdle

ApplyParseFrontmatter ==
    /\ pc = "ready"
    /\ pc' = "done"
    /\ fn' = "parse_frontmatter"
    /\ LET text == FrontmatterText(fnIn[1])
       IN  \E y \in IF text = <<>> THEN {<<>>}
                    ELSE {<<a>> : a \in yaml_safe_load(text[1])} :
               /\ resp' = y
               /\ fnOut' = parse_frontmatter(fnIn[1], y)
    /\ UNCHANGED <<fnIn, toolVars, clientVars, requests, raised, result, vaultVars,
                   serverVars>>

NextFrontmatter == ApplyParseFrontmatter

SpecFrontmatter == InitFrontmatter /\ [][NextFrontmatter]_vars

----------------------------------------------------------------------------
(* Specification of the connection profile (config.py and the constructor  *)
(* of ObsidianClient): the environment may change at any time; get_config  *)
(* loads the profile into the global _config when that is None;            *)
(* ObsidianClient() keeps get_config().obsidian as self.config and every   *)
(* request of the client is built from self.config.  Of the environment    *)
(* the key is modelled: load_config reads the other settings in the same   *)
(* call.  result holds what the calls of get_config returned, client the   *)
(* self.config of each client constructed, requests the requests issued.   *)

MaxCalls == 2

(* get_config calling load_config whether or not _config is set *)
get_config_always_loads(cached, env) ==
    LET loaded == load_config(env)
    IN  [config |-> IF loaded.ok THEN <<loaded.val>> ELSE cached, out |-> loaded]

(* get_config(): the global _config afterwards and the outcome of the call *)
get_config(cached, env) ==
    IF cached # <<>> THEN [config |-> cached, out |-> Returns(cached[1])]
    ELSE LET loaded == load_config(env)
         IN  [config |-> IF loaded.ok THEN <<loaded.val>> ELSE cached, out |-> loaded]

InitConfig ==
    /\ pc = "ready"
    /\ environ \in EnvKeys
    /\ client = <<>> /\ built = 0 /\ tasks = <<>>
    /\ _config = <<>> /\ resets = 0
    /\ PathIdle /\ ToolIdle /\ ClientIdle /\ IoIdle /\ VaultIdle

(* The environment of the process is changed *)
SetEnviron ==
    /\ environ' \in (EnvKeys \cup {<< <<"KEY2">> >>}) \ {environ}
    /\ UNCHANGED <<pc, client, built, _config, resets, tasks>>
    /\ UNCHANGED <<pathVars, toolVars, clientVars, ioVars, vaultVars>>

(* A call of get_config() *)
GetConfig ==
    /\ Len(result) < MaxCalls
    /\ LET g == get_config(_config, environ)
       IN  /\ _config' = g.config
           /\ result' = IF g.out.ok THEN Append(result, g.out.val) ELSE result
           /\ raised' = IF g.out.ok THEN <<>> ELSE <<g.out.exc>>
    /\ UNCHANGED <<pc, environ, client, built, resets, tasks, requests, resp>>
    /\ UNCHANGED <<pathVars, toolVars, clientVars, vaultVars>>

(* A call of reset_config() *)
ResetConfig ==
    /\ resets < MaxCalls
    /\ _config' = <<>>
    /\ resets' = resets + 1
    /\ UNCHANGED <<pc, environ, client, built, tasks>>
    /\ UNCHANGED <<pathVars, toolVars, clientVars, ioVars, vaultVars>>

(* ObsidianClient(): self.config = config or get_config().obsidian, as the *)
(* constructor of every tool handler calls it                              *)
NewClient ==
    /\ built < MaxCalls
    /\ LET g == get_config(_config, environ)
       IN  /\ _config' = g.config
           /\ client' = IF g.out.ok THEN Append(client, g.out.val) ELSE client
           /\ built' = IF g.out.ok THEN built + 1 ELSE built
           /\ raised' = IF g.out.ok THEN <<>> ELSE <<g.out.exc>>
    /\ UNCHANGED <<pc, environ, resets, tasks, requests, resp, result>>
    /\ UNCHANGED <<pathVars, toolVars, clientVars, vaultVars>>

(* A client issues a request: the URL from self.config.get_base_url(), the *)
(* headers from _get_headers(), verify and timeout from self.config        *)
ClientRequest ==
    /\ Len(requests) < MaxCalls
    /\ \E i \in DOMAIN client :
          LET config == client[i]
          IN  requests' = Append(requests,
                  [method |-> "GET",
                   url |-> <<config.protocol, "://", config.host, ":",
                             ToString(config.port), "/">>,
                   headers |-> ("Authorization" :> <<"Bearer ">> \o config.api_key)
                                   @@ ("Content-Type" :> <<"text/markdown">>),
                   data |-> <<>>,
                   verify |-> config.verify_ssl, timeout |-> config.timeout])
    /\ UNCHANGED <<pc, resp, raised, result>>
    /\ UNCHANGED <<pathVars, toolVars, clientVars, vaultVars, serverVars>>

NextConfig == SetEnviron \/ GetConfig \/ ResetConfig \/ NewClient \/ ClientRequest

SpecConfig == InitConfig /\ [][NextConfig]_vars

----------------------------------------------------------------------------
(* Properties *)

(* C1: when the arguments of a file tool invocation are invalid (path     *)
(* missing or empty; content or target missing; format, operation or       *)
(* target_type outside its enum; confirm not true), the invocation ends    *)
(* in validate_args with a ValidationError and no HTTP request has been    *)
(* issued.                                                                 *)
C1_ValidationBeforeTransport ==
    LET invalid ==
            \/ "path" \notin DOMAIN args
            \/ args["path"] = <<>>
            \/ /\ tool \in {"obsidian_create_note", "obsidian_append_note",
                            "obsidian_patch_note"}
               /\ "content" \notin DOMAIN args
            \/ tool = "obsidian_patch_note" /\ "target" \notin DOMAIN args
            \/ /\ tool = "obsidian_read_note"
               /\ "format" \in DOMAIN args
               /\ args["format"] \notin {"markdown", "json"}
            \/ /\ tool = "obsidian_patch_note"
               /\ "operation" \in DOMAIN args
               /\ args["operation"] \notin {"append", "prepend", "replace"}
            \/ /\ tool = "obsidian_patch_note"
               /\ "target_type" \in DOMAIN args
               /\ args["target_type"] \notin {"heading", "block", "frontmatter"}
            \/ /\ tool = "obsidian_delete_note"
               /\ ("confirm" \notin DOMAIN args \/ args["confirm"] # TRUE)
    IN  (pc # "idle" /\ invalid) =>
            /\ pc = "done"
            /\ raised # <<>>
            /\ raised[1].type = "ValidationError"
            /\ requests = <<>>

(* C1 witness: a patch invocation with an operation outside the enum has   *)
(* been rejected.                                                          *)
C1_Witness ==
    /\ pc = "done"
    /\ tool = "obsidian_patch_note"
    /\ "operation" \in DOMAIN args
    /\ args["operation"] = "delete"
    /\ "path" \in DOMAIN args
    /\ args["path"] = <<"a">>
    /\ raised # <<>>
    /\ raised[1].type = "ValidationError"
    /\ requests = <<>>

(* C2: every tool invocation that has ended returned a single text block   *)
(* and no exception left it.                                               *)
C2_NoExceptionEscapes ==
    pc = "done" =>
        /\ raised = <<>>
        /\ result # <<>>
        /\ Len(result[1]) = 1
        /\ result[1][1].type = "text"

(* C3: a 401 answer surfaces AuthenticationError and a 404 answer surfaces *)
(* FileNotFoundError; for the operations on a note the error carries the   *)
(* path of the note that was requested.                                    *)
C3_AuthAndNotFound ==
    (pc = "done" /\ resp.kind = "response") =>
        /\ resp.status = 401 =>
              raised # <<>> /\ raised[1].type = "AuthenticationError"
        /\ resp.status = 404 =>
              /\ raised # <<>>
              /\ raised[1].type = "FileNotFoundError"
              /\ op \in {"get_file_contents", "create_or_update_file", "append_content",
                         "patch_content", "delete_file"} =>
                    raised[1].message = <<"File not found: ">> \o opArgs.filepath

(* C4: a non-2xx answer other than 401 and 404 surfaces an ObsidianError;  *)
(* with a body holding message and errorCode it carries exactly these,     *)
(* with a body that does not parse it carries the status code and the      *)
(* status line.                                                            *)
C4_RemoteError ==
    (/\ pc = "done"
     /\ resp.kind = "response"
     /\ ~(resp.status >= 200 /\ resp.status < 300)
     /\ resp.status \notin {401, 404}) =>
        /\ raised # <<>>
        /\ raised[1].type = "ObsidianError"
        /\ (/\ resp.body.json # <<>>
            /\ resp.body.json[1].t = "object"
            /\ {"message", "errorCode"} \subseteq DOMAIN resp.body.json[1].fields) =>
               /\ raised[1].message = resp.body.json[1].fields.message
               /\ raised[1].status_code = <<resp.body.json[1].fields.errorCode>>
        /\ resp.body.json = <<>> =>
               /\ raised[1].status_code = <<resp.status>>
               /\ StartsWith(raised[1].message, <<ToString(resp.status)>>)

(* C5: every transport failure surfaces ConnectionError carrying the base  *)
(* URL, never the unexpected-error wrapper.                                *)
C5_TransportFailure ==
    (pc = "done" /\ resp.kind = "failure") =>
        /\ raised # <<>>
        /\ raised[1].type = "ConnectionError"
        /\ Contains(raised[1].message, get_base_url)
        /\ ~StartsWith(raised[1].message, <<"Unexpected error: ">>)

(* C6: every exception that leaves a client operation is an ObsidianError  *)
(* or one of its subclasses.                                               *)
C6_ClosedTaxonomy ==
    (pc = "done" /\ raised # <<>>) => raised[1].type \in ObsidianErrorTypes

(* C7: the error block names the failure kind and holds the message, and   *)
(* differs from the block of a ValidationError with the same message.      *)
C7_ErrorBlockNamesKind ==
    (pc = "done" /\ caught # <<>>) =>
        LET text == result[1][1].text
        IN  /\ Contains(text, <<caught[1].type>>)
            /\ Contains(text, caught[1].message)
            /\ caught[1].type # "ValidationError" =>
                  text # handle_error(ValidationError(caught[1].message))[1].text

(* C8: validate_filepath removes one leading "/" and changes nothing       *)
(* else; validate_dirpath removes one leading "/" and then appends a "/"   *)
(* when the path does not end with one.                                    *)
C8_PathCanonicalisation ==
    (pc = "done" /\ fnIn # <<>> /\ fnIn[1] # <<>>) =>
        LET p == fnIn[1]
            stripped == IF p[1] = "/" THEN SubSeq(p, 2, Len(p)) ELSE p
            slashed == stripped # <<>> /\ stripped[Len(stripped)] = "/"
        IN  /\ fnOut.ok
            /\ fn = "validate_filepath" => fnOut.val = stripped
            /\ fn = "validate_dirpath" =>
                  fnOut.val = IF slashed THEN stripped ELSE Append(stripped, "/")

(* C8 witness: a directory path with a leading and without a trailing "/"  *)
(* has been canonicalised.                                                 *)
C8_Witness ==
    /\ pc = "done"
    /\ fn = "validate_dirpath"
    /\ fnIn = << <<"/", "a">> >>
    /\ fnOut.ok
    /\ fnOut.val = <<"a", "/">>

(* C9: the path of every request a tool issues is non-empty and has no     *)
(* leading "/".                                                            *)
C9_OutgoingPathInvariant ==
    requests # <<>> =>
        LET path == SubSeq(requests[1].url, Len(get_base_url) + 4, Len(requests[1].url))
        IN  /\ path # <<>>
            /\ path[1] # "/"

(* C10: an append to an existing note with body B reads the body, writes   *)
(* B + "\n\n" + A back and leaves that as the body; an append to a missing *)
(* note fails with FileNotFoundError and creates nothing.                  *)
C10_AppendReadConcatWrite ==
    (pc = "done" /\ op = "append_content") =>
        LET p == opArgs.filepath
            A == opArgs.content
        IN  IF vaultBefore[p] # <<>>
            THEN LET B == vaultBefore[p][1]
                 IN  /\ raised = <<>>
                     /\ vault[p] = <<B \o <<"\n\n">> \o A>>
                     /\ Len(requests) = 2
                     /\ requests[1].method = "GET"
                     /\ requests[2].method = "PUT"
                     /\ requests[2].data = <<B \o <<"\n\n">> \o A>>
            ELSE /\ raised # <<>>
                 /\ raised[1].type = "FileNotFoundError"
                 /\ vault = vaultBefore

C14_CreateOverwritesIdempotent ==
    (pc = "done" /\ op = "create_or_update_file") =>
        LET p == opArgs.filepath
        IN  /\ raised = <<>>
            /\ vault[p] = <<opArgs.content>>
            /\ \A q \in VaultPaths \ {p} : vault[q] = vaultBefore[q]
            /\ (/\ opBefore.op = "create_or_update_file"
                /\ opBefore.ok
                /\ opBefore.args = opArgs) => vault = vaultBefore

(* C14 witness: the same create was applied twice to a note that held a    *)
(* body, and the note holds exactly the new content.                       *)
C14_Witness ==
    /\ pc = "done"
    /\ op = "create_or_update_file"
    /\ opArgs = [filepath |-> <<"b">>, content |-> <<"C">>]
    /\ opBefore.op = "create_or_update_file"
    /\ opBefore.ok
    /\ opBefore.args = opArgs
    /\ vault[<<"b">>] = << <<"C">> >>
    /\ vault = vaultBefore

(* C16: a client operation that has ended issued exactly one HTTP request, *)
(* the one of the operation, also when the request failed and the          *)
(* operation reports the failure.                                          *)
C16_NoRetries ==
    pc = "done" =>
        /\ Len(requests) = 1
        /\ requests[1] = BuildRequest(op, opArgs)

(* C16 witness: delete_file met a transport failure and reported it after  *)
(* its single DELETE.                                                      *)
C16_Witness ==
    /\ pc = "done"
    /\ op = "delete_file"
    /\ resp.kind = "failure"
    /\ raised # <<>>
    /\ Len(requests) = 1
    /\ requests[1].method = "DELETE"

(* C17: every request a client operation issues carries Authorization:     *)
(* Bearer followed by the configured key, the configured timeout and the   *)
(* configured TLS-verification flag.                                       *)
C17_AuthTimeoutVerify ==
    \A i \in 1..Len(requests) :
        /\ "Authorization" \in DOMAIN requests[i].headers
        /\ requests[i].headers["Authorization"] = <<"Bearer ", Config.api_key>>
        /\ requests[i].timeout = Config.timeout
        /\ requests[i].verify = Config.verify_ssl

(* C17 witness: search_json, which replaces the content type of the        *)
(* default headers, has sent its request with the bearer key.              *)
C17_Witness ==
    /\ pc = "done"
    /\ op = "search_json"
    /\ Len(requests) = 1
    /\ requests[1].headers["Content-Type"] = <<"application/vnd.olrapi.jsonlogic+json">>
    /\ requests[1].headers["Authorization"] = <<"Bearer ", "KEY">>
    /\ requests[1].timeout = 10
    /\ requests[1].verify = FALSE

(* C19: the batch read helper returns for every list of paths, whatever    *)
(* the reads answer: every path has been requested, in input order, and    *)
(* the text returned is the sections of the paths in input order, the      *)
(* section of a path whose read failed holding "Error reading file: "      *)
(* and the message of the failure.                                         *)
C19_BatchNeverAborts ==
    (pc = "done" /\ op = "get_batch_file_contents") =>
        LET fp == opArgs.filepaths
            n == Len(fp)
            failed(i) == resp[i].kind = "failure" \/ resp[i].status >= 400
            section(i) ==
                <<"# ">> \o fp[i] \o <<"\n\n">>
                    \o (IF failed(i)
                        THEN <<"Error reading file: ">>
                                 \o Str(_safe_call("get_file_contents",
                                                    [filepath |-> fp[i], format |-> "markdown"],
                                                    resp[i]).exc)
                        ELSE resp[i].body.text)
                    \o <<"\n\n---\n\n">>
            joined[i \in 0..n] == IF i = 0 THEN <<>> ELSE joined[i - 1] \o section(i)
        IN  /\ raised = <<>>
            /\ Len(requests) = n
            /\ \A i \in 1..n : requests[i].url = VaultUrl(fp[i])
            /\ result = <<joined[n]>>

(* C19 witness: of two paths the first read failed with 404 and the second *)
(* was read; both sections are in the text.                                *)
C19_Witness ==
    /\ pc = "done"
    /\ op = "get_batch_file_contents"
    /\ opArgs.filepaths = << <<"a">>, <<"b">> >>
    /\ Len(resp) = 2
    /\ resp[1].kind = "response" /\ resp[1].status = 404
    /\ resp[2].kind = "response" /\ resp[2].status = 200
    /\ resp[2].body.text = <<"A">>
    /\ result = << <<"# ", "a", "\n\n", "Error reading file: ", "[", "404", "] ",
                     "File not found: ", "a", "\n\n---\n\n",
                     "# ", "b", "\n\n", "A", "\n\n---\n\n">> >>

(* C18: a query whose last token is ".md" and that holds neither a space   *)
(* nor a ":" is dispatched as "file:" followed by the query; every other   *)
(* query is dispatched unchanged; rewriting the dispatched query again     *)
(* changes nothing.                                                        *)
C18_QueryRewriting ==
    (pc = "done" /\ fn = "RewriteQuery") =>
        LET q == fnIn[1]
            bare == /\ q # <<>>
                    /\ q[Len(q)] = ".md"
                    /\ \A i \in 1..Len(q) : q[i] \notin {" ", ":"}
        IN  /\ fnOut.ok
            /\ bare => fnOut.val = <<"file", ":">> \o q
            /\ ~bare => fnOut.val = q
            /\ RewriteQuery(fnOut.val) = fnOut.val

(* C18 witness: the bare file name note.md has been rewritten to           *)
(* file:note.md.                                                           *)
C18_Witness ==
    /\ pc = "done"
    /\ fn = "RewriteQuery"
    /\ fnIn = << <<"note", ".md">> >>
    /\ fnOut = Returns(<<"file", ":", "note", ".md">>)

(* C12: however the tool invocations interleave, at most one               *)
(* ObsidianClient is constructed; the global handle, once set, is that     *)
(* object; and every invocation that calls the client uses that handle.    *)
C12_OneInitializationWins ==
    /\ built <= 1
    /\ client # <<>> => (built = 1 /\ client = <<1>>)
    /\ \A t \in DOMAIN tasks :
          /\ tasks[t].used # <<>> => tasks[t].used = client
          /\ tasks[t].pc \in {"connecting", "calling"} => client = <<1>>

(* C12 witness: the second invocation entered while the first was awaiting *)
(* the connection test of its initialization, and calls the client through *)
(* the handle the first one stored.                                        *)
C12_Witness ==
    /\ DOMAIN tasks = TaskIds
    /\ tasks[1].pc = "connecting"
    /\ tasks[2].pc = "calling"
    /\ tasks[2].used = <<1>>
    /\ client = <<1>>
    /\ built = 1

(* C15: a delete-note invocation whose confirm argument is absent or false *)
(* never issues a DELETE request, never gets as far as calling the client, *)
(* and ends with an exception: a ValidationError, unless the               *)
(* initialization of the client failed first.                              *)
C15_DeleteNeedsConfirm ==
    \A t \in DOMAIN tasks :
        (/\ tasks[t].tool = "obsidian_delete_note"
         /\ ("confirm" \notin DOMAIN tasks[t].args \/ tasks[t].args["confirm"] = FALSE)) =>
            /\ \A i \in 1..Len(tasks[t].requests) : tasks[t].requests[i].method # "DELETE"
            /\ tasks[t].pc # "calling"
            /\ tasks[t].pc = "done" =>
                  /\ tasks[t].raised # <<>>
                  /\ tasks[t].raised[1].type
                        \in {"ValidationError", "ValueError", "ConfigurationError"}

(* C20: when OBSIDIAN_API_KEY is unset or empty no client is constructed,  *)
(* the global handle stays unset, no invocation issues a request, and      *)
(* every invocation that has been entered has ended with an exception.     *)
C20_MissingKeyFailsInitialization ==
    (tasks # <<>> /\ Falsy(environ)) =>
        /\ client = <<>>
        /\ built = 0
        /\ \A t \in DOMAIN tasks :
              /\ tasks[t].requests = <<>>
              /\ tasks[t].pc # "start" =>
                    (tasks[t].pc = "done" /\ tasks[t].raised # <<>>)

(* C20 witness: with an empty key the first invocation has ended with the  *)
(* ValueError of load_config, without a request and without a handle.      *)
C20_Witness ==
    /\ environ = << <<>> >>
    /\ DOMAIN tasks = TaskIds
    /\ tasks[1].pc = "done"
    /\ tasks[1].raised # <<>>
    /\ tasks[1].raised[1].type = "ValueError"
    /\ tasks[1].requests = <<>>
    /\ client = <<>>

(* C11: an append is two round trips, a read followed by a write of the    *)
(* whole body, so that of two concurrent appends to a note one can be      *)
(* lost: every append that has ended on a note has issued a GET and then a *)
(* PUT whose data ends with the appended content.                          *)
C11_LostUpdateHazard ==
    \A t \in DOMAIN tasks :
        (tasks[t].tool = "append_content" /\ tasks[t].pc = "done") =>
            /\ Len(tasks[t].requests) = 2
            /\ tasks[t].requests[1].method = "GET"
            /\ tasks[t].requests[2].method = "PUT"
            /\ tasks[t].requests[2].data # <<>>
            /\ EndsWith(tasks[t].requests[2].data[1], tasks[t].args.content)

(* C29: canonicalising a canonical path changes nothing: applying          *)
(* validate_filepath to its own result returns that result again, and      *)
(* likewise validate_dirpath.                                              *)
C29_CanonicalisationIdempotent ==
    (pc = "done" /\ fnOut.ok) =>
        /\ fn = "validate_filepath" => validate_filepath(<<fnOut.val>>) = fnOut
        /\ fn = "validate_dirpath" => validate_dirpath(<<fnOut.val>>) = fnOut

(* C30: a listing of a directory d that validate_dirpath produced is       *)
(* requested at /vault/ followed by d, which ends with its one "/": no     *)
(* second "/" is put behind it.                                            *)
C30_ListingUrlOneTrailingSlash ==
    (/\ op = "list_files_in_dir"
     /\ requests # <<>>
     /\ \E p \in OptPaths : validate_dirpath(p) = Returns(opArgs.dirpath)) =>
        /\ requests[1].url = get_base_url \o <<"/", "vault", "/">> \o opArgs.dirpath
        /\ ~EndsWith(requests[1].url, <<"/", "/">>)

(* C22: when no file is active, so that the upstream answers the request   *)
(* for the active file with an error status (an authentication failure     *)
(* and a body that is JSON but no object set aside), get_active_file fails *)
(* with the base ObsidianError and not with the error of a missing path.   *)
C22_ActiveFileRemoteError ==
    (/\ op = "get_active_file"
     /\ pc = "done"
     /\ resp.kind = "response"
     /\ RaisesForStatus(resp)
     /\ resp.status # 401
     /\ (resp.body.json = <<>> \/ resp.body.json[1].t = "object")) =>
        /\ raised # <<>>
        /\ raised[1].type = "ObsidianError"

(* C26: when initialize_client has failed (its connection test answered    *)
(* "not connected" or raised) and no initialization has succeeded or is    *)
(* under way since, the global client is still unset, so that the next     *)
(* invocation initializes again.                                           *)
C26_FailedInitializationLeavesClientUnset ==
    LET failed(t) == /\ tasks[t].pc = "done"
                     /\ tasks[t].raised # <<>>
                     /\ tasks[t].raised[1].type = "ConfigurationError"
        tested(t) == \E i \in DOMAIN tasks[t].requests :
                        tasks[t].requests[i] = ConnectRequest
    IN  (/\ \E t \in DOMAIN tasks : failed(t)
         /\ \A t \in DOMAIN tasks : tested(t) => failed(t)) =>
            client = <<>>

(* C27: a tool invocation issues the request of its vault operation        *)
(* through the global client only after a connection test has completed    *)
(* with success, also when it starts while another invocation is           *)
(* suspended in the test.                                                  *)
C27_NoRequestBeforeConnectionTest ==
    LET passed(t) == /\ \E i \in DOMAIN tasks[t].requests :
                            tasks[t].requests[i] = ConnectRequest
                     /\ tasks[t].used # <<>>
    IN  \A t \in DOMAIN tasks :
            tasks[t].used # <<>> => \E u \in DOMAIN tasks : passed(u)

C24_PatchHeaders ==
    (tool = "obsidian_patch_note" /\ requests # <<>>) =>
        LET arg(k, default) == IF k \in DOMAIN args THEN args[k] ELSE default
            operation == arg("operation", "append")
            target_type == arg("target_type", "heading")
            flag == arg("create_target_if_missing", TRUE)
            target == args["target"]
            req == requests[1]
        IN  /\ Len(requests) = 1
            /\ req.method = "PATCH"
            /\ req.url = get_base_url \o <<"/", "vault", "/">> \o vargs.path
            /\ req.data = <<args["content"]>>
            /\ operation \in {"append", "prepend", "replace"}
            /\ target_type \in {"heading", "block", "frontmatter"}
            /\ req.headers["Operation"] = <<operation>>
            /\ req.headers["Target-Type"] = <<target_type>>
            /\ req.headers["Target"] =
                  [i \in 1..Len(target) |-> IF target[i] = " " THEN "%20" ELSE target[i]]
            /\ req.headers["Create-Target-If-Missing"] =
                  <<IF flag THEN "true" ELSE "false">>
            /\ req.headers["Authorization"] = <<"Bearer ", Config.api_key>>

(* C24 witness: a patch invocation that gave only path, target and content *)
(* has sent its PATCH with the defaults append, heading and true and the   *)
(* target "T T" as T%20T.                                                  *)
C24_Witness ==
    /\ tool = "obsidian_patch_note"
    /\ DOMAIN args = {"path", "target", "content"}
    /\ args["target"] = <<"T", " ", "T">>
    /\ pc = "done"
    /\ Len(requests) = 1
    /\ requests[1].method = "PATCH"
    /\ requests[1].headers["Operation"] = <<"append">>
    /\ requests[1].headers["Target-Type"] = <<"heading">>
    /\ requests[1].headers["Target"] = <<"T", "%20", "T">>
    /\ requests[1].headers["Create-Target-If-Missing"] = <<"true">>

(* C23: a tool invocation that succeeds returns exactly one text block;    *)
(* the block of a read holds the operation's result as it is when the      *)
(* result is a string, and its pretty-printed JSON text when the result    *)
(* is a list or a map.                                                     *)
C23_OneTextBlockOnSuccess ==
    (tool # "none" /\ pc = "done" /\ requests # <<>> /\ caught = <<>>) =>
        /\ Len(result[1]) = 1
        /\ result[1][1].type = "text"
        /\ tool = "obsidian_read_note" =>
              IF vargs.format # "json"
              THEN result[1][1].text = resp.body.text
              ELSE LET val == resp.body.json[1]
                   IN  /\ val.t = "string" => result[1][1].text = val.fields
                       /\ val.t \in {"list", "object"} =>
                             result[1][1].text = <<"json.dumps(indent=2) of ", val.src>>

====
